---- MODULE Spec2Model ----
(***************************************************************************)
(* Model of platon-lib: the exercise navigation / grading tracker          *)
(* (NextLib.py) and the in-memory thread-safe log buffer                   *)
(* (PlatonLogger.py).                                                      *)
(*                                                                         *)
(* The dictionaries exerciseGroups, exercisesMeta, navigation and          *)
(* generatedExercises are injected by the hosting runtime: Init draws them *)
(* from bounded sets.  Every library function is one action; the variable  *)
(* call records which function ran last and with which arguments, outcome  *)
(* how it ended ("return", "StopExec" or the name of the exception         *)
(* raised) and ret what it returned.                                       *)
(***************************************************************************)
EXTENDS Integers, Sequences, FiniteSets, Bags, TLC

VARIABLES
    exerciseGroups,         \* str(group index) -> sequence of exercise ids
    exercisesMeta,          \* exercise id -> [attempts, grades]
    navigation,             \* [current, terminated]
    generatedExercises,     \* hash -> generated exercise id
    exercisesVariables,     \* None, or exercise id -> variable bag
    groupNbDefault,         \* default of isAllExercisesFromGroupPlayed's groupNb
    nextExerciseId,         \* module global set by playExercise
    nextParams,             \* module global set by playExercise
    generatedExerciseHash,  \* module global set by generateAndPlayExercise
    activityGrade,          \* module global set by setActivityGrade
    call,                   \* last library function called, with its arguments
    outcome,                \* how that call ended
    ret,                    \* what it returned
    _logs,                  \* PlatonLogger._logs
    _lock,                  \* PlatonLogger._lock: the holder, or NoThread
    pc,                     \* per thread: position inside its current call
    script,                 \* per caller: the argument tuples it will log, in order
    sent,                   \* per caller: number of platon_log calls completed
    origin,                 \* history: for each entry of _logs, <<caller, index>>
    got,                    \* the list the last get_logs returned
    gotOrigin,              \* history: origin of each entry of got
    gotAfterAll,            \* history: whether that get_logs was issued after all appends
    message,                \* per caller: the local variable message of platon_log
    gotObject,              \* the list object get_logs returned: a new list or _logs
    count,                  \* what the last log_count returned
    appended,               \* history: every message appended so far, in lock order
    clearedAt,              \* history: Len(appended) when _logs was last cleared
    content                 \* FoldableFeedbackContent.content

envVars  == <<exerciseGroups, exercisesMeta, generatedExercises, exercisesVariables,
              groupNbDefault>>
pendVars == <<nextExerciseId, nextParams, generatedExerciseHash>>
callVars == <<call, outcome, ret>>
navVars  == <<envVars, navigation, pendVars, activityGrade, callVars>>
bufVars  == <<gotObject, count, appended, clearedAt>>
logVars  == <<_logs, _lock, pc, script, sent, origin, got, gotOrigin, gotAfterAll,
              message, bufVars>>
vars     == <<navVars, logVars, content>>

(***************************************************************************)
(* Bounds                                                                  *)
(***************************************************************************)
MaxGroups    == 2   \* groups "0" .. str(n-1), n in 1..MaxGroups
MaxGroupSize == 2   \* exercises per group, 0..MaxGroupSize (a group may be empty)
NumCallers   == 2   \* concurrent callers of platon_log
MaxMsgs      == 2   \* platon_log calls per caller, 1..MaxMsgs
MaxGrades    == 2   \* grades recorded per exercise, 0..MaxGrades

(***************************************************************************)
(* Values                                                                  *)
(***************************************************************************)
None   == "None"          \* Python None where the other values are strings
NoRet  == "None"          \* a call that returned nothing / did not return
NoGrade == <<>>           \* activityGrade before any setActivityGrade; <<g>> once set

Digits == <<"0", "1", "2", "3", "4", "5", "6", "7", "8", "9">>

\* str(groupNb) for the small integers the model uses
Str(n) == IF n < 0 THEN "-" \o Digits[(-n) + 1] ELSE Digits[n + 1]

\* Parameter bags: Python None, or a dict kept as its insertion-ordered
\* sequence of <<key, value>> pairs.
PNone        == [none |-> TRUE,  items |-> <<>>]
PDict(items) == [none |-> FALSE, items |-> items]
Truthy(p)    == ~p.none /\ Len(p.items) > 0

\* exercisesVariables: Python None, or a dict exercise id -> variable bag
NoVariables     == [none |-> TRUE,  bags |-> <<>>]
Variables(bags) == [none |-> FALSE, bags |-> bags]

(***************************************************************************)
(* Injected state: the shapes the runtime hands to the library             *)
(***************************************************************************)
GenGroup == "-1"    \* key of the reserved group of generated exercises
GenExId  == "g0"    \* the generated exercise of the model
TplId    == "tpl"   \* an exercise template passed to generateAndPlayExercise
UnknownId == "zz"   \* an id that is in no group and has no meta

\* id of the exercise at 0-based position i of group g
ExId(g, i) == "e" \o Digits[g + 1] \o Digits[i + 1]

Num(k) == CHOOSE n \in -1..9 : Str(n) = k

\* exerciseGroups for n groups of the given sizes, with or without group "-1"
Layout(n, sizes, hasGen) ==
    [k \in {Str(g) : g \in 0..(n - 1)} \cup (IF hasGen THEN {GenGroup} ELSE {}) |->
        IF k = GenGroup
        THEN <<[id |-> GenExId]>>
        ELSE [i \in 1..sizes[Num(k)] |-> [id |-> ExId(Num(k), i - 1)]]]

Layouts ==
    {Layout(n, sizes, hasGen) :
        n \in 1..MaxGroups, sizes \in [0..(MaxGroups - 1) -> 0..MaxGroupSize],
        hasGen \in BOOLEAN}

IdsOf(groups) == UNION {{groups[k][i].id : i \in 1..Len(groups[k])} : k \in DOMAIN groups}

\* navigation["current"]: key missing, None, or an exercise pointer
NoKey      == [kind |-> "nokey", id |-> None]
NullCur    == [kind |-> "none",  id |-> None]
CurEx(x)   == [kind |-> "ex",    id |-> x]

(***************************************************************************)
(* Checks and queries (NextLib.py)                                         *)
(***************************************************************************)
getGroupsCount ==
    IF GenGroup \in DOMAIN exerciseGroups
    THEN Cardinality(DOMAIN exerciseGroups) - 1
    ELSE Cardinality(DOMAIN exerciseGroups)

\* variant: the group index checked against the range [0, getGroupsCount())
checkGroupNbInRange(groupNb) == 0 <= groupNb /\ groupNb < getGroupsCount

\* TRUE iff checkGroupNb returns without raising InvalidGroupError
checkGroupNb(groupNb) == Str(groupNb) \in DOMAIN exerciseGroups

\* TRUE iff checkExerciseNb (after a passed group check) does not raise
checkExerciseNb(groupNb, exerciseNb) ==
    ~(exerciseNb < 0 \/ exerciseNb >= Len(exerciseGroups[Str(groupNb)]))

getGroupExercisesCount(groupNb) == Len(exerciseGroups[Str(groupNb)])

getExerciseAttempts(exerciseId) == exercisesMeta[exerciseId].attempts

isPlayed(exerciseId) == getExerciseAttempts(exerciseId) > 0

\* navigation.get("current") is falsy for a missing key and for None
getPreviousExerciseId ==
    IF navigation.current.kind # "ex" THEN None ELSE navigation.current.id

\* <<g>> for the number g of the group holding navigation["current"], <<>> for None
getPreviousGroupNumber ==
    IF navigation.current.kind # "ex" THEN <<>>
    ELSE LET holders == {k \in DOMAIN exerciseGroups :
                            \E i \in 1..Len(exerciseGroups[k]) :
                                exerciseGroups[k][i].id = navigation.current.id}
         IN  IF holders = {} THEN <<>> ELSE <<Num(CHOOSE k \in holders : TRUE)>>

\* the exercises of groups 0 .. getGroupsCount()-1, in (group, exercise) order
RECURSIVE FlatFrom(_)
FlatFrom(groupNb) ==
    IF groupNb >= getGroupsCount THEN <<>>
    ELSE exerciseGroups[Str(groupNb)] \o FlatFrom(groupNb + 1)

\* variant: the scan goes on after a hit, the last unplayed exercise wins
RECURSIVE LastUnplayed(_, _)
LastUnplayed(exercises, i) ==
    IF i > Len(exercises) THEN None
    ELSE LET later == LastUnplayed(exercises, i + 1) IN
         IF later # None THEN later
         ELSE IF ~isPlayed(exercises[i].id) THEN exercises[i].id ELSE None

\* the loop "for exercise in exercises: if not isPlayed(id): playExercise(id)":
\* the id of the first call of playExercise (which never returns), or None
RECURSIVE FirstUnplayed(_, _)
FirstUnplayed(exercises, i) ==
    IF i > Len(exercises) THEN None
    ELSE IF ~isPlayed(exercises[i].id) THEN exercises[i].id
    ELSE FirstUnplayed(exercises, i + 1)

\* variant: found_current is set before the exercise is tested
RECURSIVE NextUnplayedFromCurrent(_, _, _, _)
NextUnplayedFromCurrent(exercises, i, found_current, current_id) ==
    IF i > Len(exercises) THEN None
    ELSE IF (found_current \/ exercises[i].id = current_id) /\ ~isPlayed(exercises[i].id)
         THEN exercises[i].id
    ELSE NextUnplayedFromCurrent(exercises, i + 1,
                                 found_current \/ exercises[i].id = current_id, current_id)

\* the first loop of playNextUnplayedExercise, with its found_current flag
RECURSIVE NextUnplayedAfter(_, _, _, _)
NextUnplayedAfter(exercises, i, found_current, current_id) ==
    IF i > Len(exercises) THEN None
    ELSE IF found_current /\ ~isPlayed(exercises[i].id) THEN exercises[i].id
    ELSE NextUnplayedAfter(exercises, i + 1,
                           found_current \/ exercises[i].id = current_id, current_id)

\* variant: the list comprehension without its isPlayed filter
Unfiltered(exercises) == exercises

\* [exercise for exercise in exercises if not isPlayed(exercise["id"])]
Unplayed(exercises) == SelectSeq(exercises, LAMBDA ex : ~isPlayed(ex.id))

AnyPlayed(exercises) == \E i \in 1..Len(exercises) : isPlayed(exercises[i].id)
AllPlayed(exercises) == \A i \in 1..Len(exercises) : isPlayed(exercises[i].id)

(***************************************************************************)
(* How a call ends                                                         *)
(***************************************************************************)
Return(v) ==
    /\ outcome' = "return"
    /\ ret' = v
    /\ UNCHANGED <<nextExerciseId, nextParams>>

Raise(e) ==
    /\ outcome' = e
    /\ ret' = NoRet
    /\ UNCHANGED <<nextExerciseId, nextParams>>

\* variant: playExercise guarded by the terminated flag
playExerciseUnlessTerminated(exerciseId, params) ==
    IF navigation.terminated THEN Return(None)
    ELSE /\ nextExerciseId' = exerciseId
         /\ nextParams' = IF Truthy(params) THEN params ELSE nextParams
         /\ outcome' = "StopExec"
         /\ ret' = NoRet

\* variant: playExercise without the final raise
playExerciseNoRaise(exerciseId, params) ==
    /\ nextExerciseId' = exerciseId
    /\ nextParams' = IF Truthy(params) THEN params ELSE nextParams
    /\ outcome' = "return"
    /\ ret' = NoRet

\* variant: playExercise without the "if params" test
playExerciseAlwaysParams(exerciseId, params) ==
    /\ nextExerciseId' = exerciseId
    /\ nextParams' = params
    /\ outcome' = "StopExec"
    /\ ret' = NoRet

\* playExercise: sets the pending id (and the params when truthy), raises StopExec
playExercise(exerciseId, params) ==
    /\ nextExerciseId' = exerciseId
    /\ nextParams' = IF Truthy(params) THEN params ELSE nextParams
    /\ outcome' = "StopExec"
    /\ ret' = NoRet

Called(op, args) == call' = [op |-> op, args |-> args]

(***************************************************************************)
(* hashParams: md5 of json.dumps({**params, "idExo": id}, sort_keys=True)  *)
(***************************************************************************)
IdKey    == "idExo"
KeyOrder == <<"a", "b", IdKey>>     \* the keys of the model, in sort order

KeyRank(k) == CHOOSE i \in 1..Len(KeyOrder) : KeyOrder[i] = k

\* {**params, "idExo": exerciseId}: an existing key keeps its position
RECURSIVE MergeId(_, _)
MergeId(items, exerciseId) ==
    IF items = <<>> THEN <<<<IdKey, exerciseId>>>>
    ELSE IF Head(items)[1] = IdKey THEN <<<<IdKey, exerciseId>>>> \o Tail(items)
    ELSE <<Head(items)>> \o MergeId(Tail(items), exerciseId)

RECURSIVE InsertByKey(_, _)
InsertByKey(pair, sorted) ==
    IF sorted = <<>> THEN <<pair>>
    ELSE IF KeyRank(pair[1]) <= KeyRank(Head(sorted)[1]) THEN <<pair>> \o sorted
    ELSE <<Head(sorted)>> \o InsertByKey(pair, Tail(sorted))

\* sort_keys=True
RECURSIVE SortKeys(_)
SortKeys(items) ==
    IF items = <<>> THEN <<>> ELSE InsertByKey(Head(items), SortKeys(Tail(items)))

\* the digest, taken as injective on the serialized text
md5(text) == [md5 |-> text]
NoHash    == [md5 |-> <<>>]    \* generatedExerciseHash before any generation

\* variant: serialized in insertion order (no sort_keys)
hashParamsUnsorted(params, exerciseId) == md5(MergeId(params.items, exerciseId))

hashParams(params, exerciseId) == md5(SortKeys(MergeId(params.items, exerciseId)))

(***************************************************************************)
(* Navigation commands (NextLib.py)                                        *)
(***************************************************************************)
Frame ==
    UNCHANGED <<envVars, navigation, generatedExerciseHash, activityGrade, logVars, content>>

CallPlayExercise(exerciseId, params) ==
    /\ Called("playExercise", <<exerciseId, params>>)
    /\ playExercise(exerciseId, params)
    /\ Frame

stopActivity ==
    /\ Called("stopActivity", <<>>)
    /\ navigation' = [navigation EXCEPT !.terminated = TRUE]
    \* "nextExerciseId = ''" has no "global" statement: it binds a local name
    /\ UNCHANGED <<nextExerciseId, nextParams>>
    /\ outcome' = "StopExec"
    /\ ret' = NoRet
    /\ UNCHANGED <<envVars, generatedExerciseHash, activityGrade, logVars, content>>

playPrevious ==
    /\ Called("playPrevious", <<>>)
    /\ LET previousId == getPreviousExerciseId IN
           IF previousId # None THEN playExercise(previousId, PNone) ELSE Return(None)
    /\ Frame

playPreviousIfUnplayed ==
    /\ Called("playPreviousIfUnplayed", <<>>)
    /\ LET previousId == getPreviousExerciseId IN
           IF previousId = None THEN Return(None)
           ELSE IF previousId \notin DOMAIN exercisesMeta THEN Raise("KeyError")
           ELSE IF getExerciseAttempts(previousId) = 0
                THEN playExercise(previousId, PNone)
                ELSE Return(None)
    /\ Frame

playAnyFromGroup(groupNb) ==
    /\ Called("playAnyFromGroup", <<groupNb>>)
    /\ IF ~checkGroupNb(groupNb) THEN Raise("InvalidGroupError")
       ELSE LET exercises == exerciseGroups[Str(groupNb)] IN
            IF AnyPlayed(exercises) THEN Return(None)
            ELSE IF getGroupExercisesCount(groupNb) = 0 THEN Raise("ValueError")
            ELSE \E randomExerciseNb \in 0..(getGroupExercisesCount(groupNb) - 1) :
                     playExercise(exercises[randomExerciseNb + 1].id, PNone)
    /\ Frame

playAllFromGroup(groupNb, randomOrder) ==
    /\ Called("playAllFromGroup", <<groupNb, randomOrder>>)
    /\ IF ~checkGroupNb(groupNb) THEN Raise("InvalidGroupError")
       ELSE LET unplayed_exercises == Unplayed(exerciseGroups[Str(groupNb)]) IN
            IF unplayed_exercises = <<>> THEN Return(None)
            ELSE IF randomOrder
                 THEN \E i \in 1..Len(unplayed_exercises) :
                          playExercise(unplayed_exercises[i].id, PNone)
                 ELSE playExercise(unplayed_exercises[1].id, PNone)
    /\ Frame

playFirstUnplayedExercise ==
    /\ Called("playFirstUnplayedExercise", <<>>)
    /\ LET first == FirstUnplayed(FlatFrom(0), 1) IN
           IF first # None THEN playExercise(first, PNone) ELSE Return(None)
    /\ Frame

playNextUnplayedExercise(loop) ==
    /\ Called("playNextUnplayedExercise", <<loop>>)
    /\ IF navigation.current.kind = "none"
       THEN Raise("AttributeError")     \* None.get("id")
       ELSE LET current_id == navigation.current.id
                after == NextUnplayedAfter(FlatFrom(0), 1, FALSE, current_id)
                first == FirstUnplayed(FlatFrom(0), 1)
            IN  IF after # None THEN playExercise(after, PNone)
                ELSE IF loop /\ first # None THEN playExercise(first, PNone)
                ELSE Return(None)
    /\ Frame

playIfUnplayed(exerciseId, params) ==
    /\ Called("playIfUnplayed", <<exerciseId, params>>)
    /\ IF exerciseId \notin DOMAIN exercisesMeta THEN Raise("KeyError")
       ELSE IF ~isPlayed(exerciseId) THEN playExercise(exerciseId, params)
       ELSE Return(None)
    /\ Frame

\* variant: generateAndPlayExercise without the "not in generatedExercises" test
generateAndPlayExerciseAlways(exerciseId, params) ==
    /\ Called("generateAndPlayExercise", <<exerciseId, params>>)
    /\ generatedExerciseHash' = hashParams(params, exerciseId)
    /\ playExercise(exerciseId, params)
    /\ UNCHANGED <<envVars, navigation, activityGrade, logVars, content>>

generateAndPlayExercise(exerciseId, params) ==
    /\ Called("generateAndPlayExercise", <<exerciseId, params>>)
    /\ LET exercice_hash == hashParams(params, exerciseId) IN
           IF exercice_hash \notin DOMAIN generatedExercises
           THEN /\ generatedExerciseHash' = exercice_hash
                /\ playExercise(exerciseId, params)
           ELSE /\ UNCHANGED generatedExerciseHash
                /\ IF getPreviousExerciseId = generatedExercises[exercice_hash]
                   THEN Return(generatedExercises[exercice_hash])
                   ELSE Return(None)
    /\ UNCHANGED <<envVars, navigation, activityGrade, logVars, content>>

(***************************************************************************)
(* Arguments the callers pass                                              *)
(***************************************************************************)
BagA       == PDict(<<<<"a", "1">>>>)
PlayParams == {PNone, BagA}              \* playExercise / playIfUnplayed
GenParams  == {PDict(<<>>), BagA}        \* generateAndPlayExercise ({} by default)
GenIds     == {TplId}
GroupArgs  == (-2)..(MaxGroups + 1)
GenHashes  == {hashParams(p, x) : p \in GenParams, x \in GenIds}

(***************************************************************************)
(* Initial states                                                          *)
(***************************************************************************)
Unplayed0  == [attempts |-> 0, grades |-> <<>>]
PlayedOnce == [attempts |-> 1, grades |-> <<80>>]

\* the registry holds at most the one generated exercise of group "-1"
Registries(groups) ==
    {[h \in D |-> GenExId] :
        D \in {E \in SUBSET GenHashes :
                 Cardinality(E) <= (IF GenGroup \in DOMAIN groups THEN 1 ELSE 0)}}

InitGlobals ==
    /\ nextExerciseId = ""
    /\ nextParams = PNone
    /\ generatedExerciseHash = NoHash
    /\ activityGrade = NoGrade
    /\ groupNbDefault = getPreviousGroupNumber
    /\ call = [op |-> "load", args |-> <<>>]
    /\ outcome = "return"
    /\ ret = NoRet

LogIdle ==
    /\ _logs = <<>>
    /\ _lock = 0
    /\ pc = <<>>
    /\ script = <<>>
    /\ sent = <<>>
    /\ origin = <<>>
    /\ got = <<>>
    /\ gotOrigin = <<>>
    /\ gotAfterAll = "none"
    /\ message = <<>>
    /\ gotObject = "none"
    /\ count = <<>>
    /\ appended = <<>>
    /\ clearedAt = 0

\* Every injected state within the bounds: the states single calls start from.
InitCall ==
    /\ exerciseGroups \in Layouts
    /\ exercisesMeta \in [IdsOf(exerciseGroups) -> {Unplayed0, PlayedOnce}]
    /\ navigation \in {[current |-> c, terminated |-> FALSE] :
                         c \in {NoKey, NullCur} \cup {CurEx(x) : x \in IdsOf(exerciseGroups)}}
    /\ generatedExercises \in Registries(exerciseGroups)
    /\ exercisesVariables = NoVariables
    /\ InitGlobals
    /\ content = <<>>
    /\ LogIdle

\* The states sequences of calls start from: the full layout, with or without
\* the generated group; nothing played, everything played, or only the first
\* exercise played; no current exercise, or the first or the generated one.
FullLayouts ==
    {Layout(MaxGroups, [g \in 0..(MaxGroups - 1) |-> MaxGroupSize], hasGen) :
        hasGen \in BOOLEAN}

Init ==
    /\ exerciseGroups \in FullLayouts
    /\ \E played \in {{}, {ExId(0, 0)}, IdsOf(exerciseGroups)} :
           exercisesMeta = [x \in IdsOf(exerciseGroups) |->
                               IF x \in played THEN PlayedOnce ELSE Unplayed0]
    /\ navigation \in {[current |-> c, terminated |-> FALSE] :
                         c \in {NoKey, NullCur, CurEx(ExId(0, 0))}
                               \cup {CurEx(x) : x \in IdsOf(exerciseGroups) \cap {GenExId}}}
    /\ generatedExercises \in Registries(exerciseGroups)
    /\ exercisesVariables = NoVariables
    /\ InitGlobals
    /\ content = <<>>
    /\ LogIdle

Next ==
    \/ \E x \in IdsOf(exerciseGroups), p \in PlayParams : CallPlayExercise(x, p)
    \/ stopActivity
    \/ playPrevious
    \/ playPreviousIfUnplayed
    \/ \E g \in GroupArgs : playAnyFromGroup(g)
    \/ \E g \in GroupArgs, r \in BOOLEAN : playAllFromGroup(g, r)
    \/ playFirstUnplayedExercise
    \/ \E loop \in BOOLEAN : playNextUnplayedExercise(loop)
    \/ \E x \in IdsOf(exerciseGroups) \cup {UnknownId}, p \in PlayParams : playIfUnplayed(x, p)
    \/ \E x \in GenIds, p \in GenParams : generateAndPlayExercise(x, p)

\* sequences of calls (the module globals persist from one call to the next)
Spec == Init /\ [][Next]_vars

\* one call from each injected state
Fresh == call.op = "load"

NextCall ==
    \/ Fresh /\ \E x \in IdsOf(exerciseGroups), p \in PlayParams : CallPlayExercise(x, p)
    \/ Fresh /\ stopActivity
    \/ Fresh /\ playPrevious
    \/ Fresh /\ playPreviousIfUnplayed
    \/ Fresh /\ \E g \in GroupArgs : playAnyFromGroup(g)
    \/ Fresh /\ \E g \in GroupArgs, r \in BOOLEAN : playAllFromGroup(g, r)
    \/ Fresh /\ playFirstUnplayedExercise
    \/ Fresh /\ \E loop \in BOOLEAN : playNextUnplayedExercise(loop)
    \/ Fresh /\ \E x \in IdsOf(exerciseGroups) \cup {UnknownId}, p \in PlayParams :
                    playIfUnplayed(x, p)
    \/ Fresh /\ \E x \in GenIds, p \in GenParams : generateAndPlayExercise(x, p)

SpecCall == InitCall /\ [][NextCall]_vars

(***************************************************************************)
(* Properties of the navigation commands                                   *)
(***************************************************************************)
NavCommands ==
    {"playExercise", "playPrevious", "playPreviousIfUnplayed", "playAnyFromGroup",
     "playAllFromGroup", "playFirstUnplayedExercise", "playNextUnplayedExercise",
     "playIfUnplayed", "generateAndPlayExercise"}

Min(S) == CHOOSE x \in S : \A y \in S : x <= y

\* ids of the exercises of groups 0..getGroupsCount()-1, in (group, exercise) order
FlatIds == [i \in 1..Len(FlatFrom(0)) |-> FlatFrom(0)[i].id]

UnplayedAt == {i \in 1..Len(FlatIds) : exercisesMeta[FlatIds[i]].attempts = 0}

GroupIds(groupNb) ==
    {exerciseGroups[Str(groupNb)][i].id : i \in 1..Len(exerciseGroups[Str(groupNb)])}

\* C2: after stopActivity(), navigation.terminated is true, the pending
\* next-exercise id is empty and the stop signal has been raised.
C2_StopActivityClearsPending ==
    call.op = "stopActivity" =>
        /\ navigation.terminated
        /\ nextExerciseId = ""
        /\ outcome = "StopExec"

\* C3 (as claimed): once navigation.terminated is true, a navigation command
\* neither changes the pending id/params nor raises the stop signal.
C3_TerminatedCommandsAreNoOps ==
    [][(navigation.terminated /\ call'.op \in NavCommands) =>
          /\ UNCHANGED <<nextExerciseId, nextParams>>
          /\ outcome' # "StopExec"]_vars

\* C3 (amended): navigation commands never reset navigation.terminated, and
\* they do not consult it: playExercise still records its argument as the
\* pending id and raises the stop signal when terminated is already true.
C3_TerminatedIsKeptNotConsulted ==
    [][(navigation.terminated /\ call'.op \in NavCommands) =>
          /\ navigation'.terminated
          /\ call'.op = "playExercise" =>
                 (outcome' = "StopExec" /\ nextExerciseId' = call'.args[1])]_vars

C3_Witness ==
    /\ navigation.terminated
    /\ call.op = "playExercise"
    /\ outcome = "StopExec"
    /\ nextExerciseId = call.args[1]

\* the exercise a signalling command may have chosen, from its arguments and
\* the injected state
ChosenOK(op, args, x) ==
    CASE op \in {"playExercise", "playIfUnplayed", "generateAndPlayExercise"} ->
             x = args[1]
      [] op \in {"playPrevious", "playPreviousIfUnplayed"} ->
             navigation.current.kind = "ex" /\ x = navigation.current.id
      [] op \in {"playAnyFromGroup", "playAllFromGroup"} ->
             Str(args[1]) \in DOMAIN exerciseGroups /\ x \in GroupIds(args[1])
      [] OTHER ->
             \E i \in UnplayedAt : x = FlatIds[i]

NavState == <<navigation, nextExerciseId, nextParams, generatedExerciseHash>>

ReturnsUnchanged == outcome' = "return" /\ UNCHANGED NavState
SignalsChosen ==
    outcome' = "StopExec" /\ ChosenOK(call'.op, call'.args, nextExerciseId')
FailsUnchanged == outcome' \notin {"return", "StopExec"} /\ UNCHANGED NavState

\* C4 (as claimed): every call of a navigation command either returns
\* normally with navigation, pending id, pending params and hash slot
\* unchanged, or raises the stop signal with the pending id set to the
\* exercise it chose.
C4_ReturnOrSignal ==
    [][call'.op \in NavCommands => (ReturnsUnchanged \/ SignalsChosen)]_vars

\* C4 (amended): a third outcome exists, an exception other than the stop
\* signal (InvalidGroupError, KeyError, AttributeError, ValueError), which
\* also leaves the state unchanged and raises no stop signal; the three
\* outcomes are mutually exclusive.
C4_ReturnSignalOrFail ==
    [][call'.op \in NavCommands =>
          (ReturnsUnchanged \/ SignalsChosen \/ FailsUnchanged)]_vars

C4_Witness ==
    /\ call.op = "playNextUnplayedExercise"
    /\ outcome = "StopExec"
    /\ nextExerciseId # ""
    /\ ~isPlayed(nextExerciseId)

C9_RegistersAndPlays ==
    [][(/\ call'.op = "generateAndPlayExercise"
        /\ hashParams(call'.args[2], call'.args[1]) \notin DOMAIN generatedExercises) =>
          /\ hashParams(call'.args[2], call'.args[1]) \in DOMAIN generatedExercises'
          /\ outcome' = "StopExec"
          /\ nextExerciseId' = call'.args[1]
          /\ nextParams' = call'.args[2]]_vars

\* C9 (amended): with an unseen hash the function stores the hash in the
\* generatedExerciseHash slot, leaves the registry generatedExercises as it
\* is, and raises the stop signal with pending id = id; the pending params
\* become params when params is non-empty and keep their earlier value when
\* params is empty.
C9_RecordsHashAndPlays ==
    [][(/\ call'.op = "generateAndPlayExercise"
        /\ hashParams(call'.args[2], call'.args[1]) \notin DOMAIN generatedExercises) =>
          /\ generatedExerciseHash' = hashParams(call'.args[2], call'.args[1])
          /\ generatedExercises' = generatedExercises
          /\ outcome' = "StopExec"
          /\ nextExerciseId' = call'.args[1]
          /\ nextParams' = IF Len(call'.args[2].items) > 0
                           THEN call'.args[2] ELSE nextParams]_vars

\* an unseen request with empty params made after a play with params
C9_Witness ==
    /\ call.op = "generateAndPlayExercise"
    /\ call.args[2] = PDict(<<>>)
    /\ hashParams(call.args[2], call.args[1]) \notin DOMAIN generatedExercises
    /\ outcome = "StopExec"
    /\ generatedExerciseHash = hashParams(call.args[2], call.args[1])
    /\ nextExerciseId = call.args[1]
    /\ nextParams = BagA

\* C10: generateAndPlayExercise(id, params) with a hash already in the
\* registry raises no stop signal and changes no state; it returns the
\* registered id if navigation.current.id equals it, and None otherwise
\* (also when there is no current exercise).
C10_SeenHashReturns ==
    [][(/\ call'.op = "generateAndPlayExercise"
        /\ hashParams(call'.args[2], call'.args[1]) \in DOMAIN generatedExercises) =>
          LET registered == generatedExercises[hashParams(call'.args[2], call'.args[1])]
          IN  /\ outcome' = "return"
              /\ UNCHANGED <<envVars, NavState, activityGrade>>
              /\ ret' = IF navigation.current.kind = "ex"
                           /\ navigation.current.id = registered
                        THEN registered ELSE None]_vars

C10_Witness ==
    /\ call.op = "generateAndPlayExercise"
    /\ hashParams(call.args[2], call.args[1]) \in DOMAIN generatedExercises
    /\ outcome = "return"
    /\ ret = generatedExercises[hashParams(call.args[2], call.args[1])]
    /\ navigation.current.kind = "ex"

(***************************************************************************)
(* Properties of the scanning commands                                     *)
(***************************************************************************)
\* the group numbers other than the reserved -1
NumberedGroups == {Num(k) : k \in DOMAIN exerciseGroups \ {GenGroup}}

PositionsOf(g) == 1..Len(exerciseGroups[Str(g)])
IdAt(g, i)     == exerciseGroups[Str(g)][i].id
UnplayedIn(g)  == {i \in PositionsOf(g) : exercisesMeta[IdAt(g, i)].attempts = 0}

\* x is unplayed, in a numbered group, and every exercise of a lower-numbered
\* group or earlier in its own group is played
FirstUnplayedIs(x) ==
    \E g \in NumberedGroups : \E i \in UnplayedIn(g) :
        /\ IdAt(g, i) = x
        /\ \A h \in NumberedGroups : \A j \in UnplayedIn(h) : ~(h < g \/ (h = g /\ j < i))

C13_PlayAllFromGroup ==
    [][(call'.op = "playAllFromGroup" /\ Str(call'.args[1]) \in DOMAIN exerciseGroups) =>
          LET g == call'.args[1] IN
              IF UnplayedIn(g) # {}
              THEN /\ outcome' = "StopExec"
                   /\ \E i \in UnplayedIn(g) : nextExerciseId' = IdAt(g, i)
                   /\ ~call'.args[2] => nextExerciseId' = IdAt(g, Min(UnplayedIn(g)))
              ELSE /\ outcome' = "return"
                   /\ UNCHANGED <<envVars, NavState, activityGrade>>]_vars

\* random order: the second of two unplayed exercises chosen
C13_Witness ==
    /\ call.op = "playAllFromGroup"
    /\ call.args[2]
    /\ outcome = "StopExec"
    /\ Str(call.args[1]) \in DOMAIN exerciseGroups
    /\ UnplayedIn(call.args[1]) = {1, 2}
    /\ nextExerciseId = IdAt(call.args[1], 2)

\* C14: playAnyFromGroup(g) for a group g that passes the group check signals
\* stop exactly when no exercise of g has attempts > 0, the pending id then
\* being an exercise of g; when an exercise of g has been attempted it
\* returns normally and changes no state.
C14_PlayAnyFromGroup ==
    [][(call'.op = "playAnyFromGroup" /\ Str(call'.args[1]) \in DOMAIN exerciseGroups) =>
          LET g == call'.args[1] IN
              IF UnplayedIn(g) = PositionsOf(g)
              THEN /\ outcome' = "StopExec"
                   /\ \E i \in PositionsOf(g) : nextExerciseId' = IdAt(g, i)
              ELSE /\ outcome' = "return"
                   /\ UNCHANGED <<envVars, NavState, activityGrade>>]_vars

\* C16: after any sequence of playExercise calls, the stop signal of the
\* latest call playExercise(id, params) leaves the pending id equal to id
\* and the pending params equal to that call's bag, absent or empty when the
\* call passed none, never the bag of an earlier call.
C16_PendingIsLatestRequest ==
    [][call'.op = "playExercise" =>
          /\ outcome' = "StopExec"
          /\ nextExerciseId' = call'.args[1]
          /\ IF call'.args[2].none
             THEN ~Truthy(nextParams')
             ELSE nextParams' = call'.args[2]]_vars

\* C17: playNextUnplayedExercise() with its default argument (loop false),
\* no current exercise in navigation and an unplayed exercise in a numbered
\* group signals stop with the first unplayed exercise in (group, exercise)
\* order.
C17_NoCurrentScansFromStart ==
    [][(/\ call'.op = "playNextUnplayedExercise"
        /\ ~call'.args[1]
        /\ navigation.current.kind # "ex"
        /\ \E g \in NumberedGroups : UnplayedIn(g) # {}) =>
          (outcome' = "StopExec" /\ FirstUnplayedIs(nextExerciseId'))]_vars

(***************************************************************************)
(* hashParams called on its own (NextLib.py)                               *)
(***************************************************************************)
CallHashParams(params, exerciseId) ==
    /\ Called("hashParams", <<params, exerciseId>>)
    /\ Return(hashParams(params, exerciseId))
    /\ Frame

\* an environment in which nothing is injected
NoEnv ==
    /\ exerciseGroups = <<>>
    /\ exercisesMeta = <<>>
    /\ navigation = [current |-> NoKey, terminated |-> FALSE]
    /\ generatedExercises = <<>>
    /\ exercisesVariables = NoVariables

\* every dict over the keys of the model: every insertion order of every set
\* of keys (a dict holds a key once), with every choice of values
HashValues == {"1", "2"}
HashPairs  == {<<KeyOrder[i], v>> : i \in 1..Len(KeyOrder), v \in HashValues}
HashBags ==
    {PDict(items) :
        items \in {s \in UNION {[1..n -> HashPairs] : n \in 0..Len(KeyOrder)} :
                     \A i, j \in 1..Len(s) : i # j => s[i][1] # s[j][1]}}
HashIds == {TplId, ExId(0, 0)}

InitHash ==
    /\ NoEnv
    /\ InitGlobals
    /\ LogIdle
    /\ content = <<>>

NextHash == \E p \in HashBags, x \in HashIds : CallHashParams(p, x)

\* sequences of hashParams calls
SpecHash == InitHash /\ [][NextHash]_vars

\* two dicts holding the same key/value pairs, whatever their insertion order
SameMapping(p, q) ==
    {p.items[i] : i \in 1..Len(p.items)} = {q.items[i] : i \in 1..Len(q.items)}

\* C11: of two calls of hashParams, the one after the other: two bags with
\* the same key/value pairs (in any key order) and the same exercise id give
\* the same hash, and the same bag with two different exercise ids gives two
\* different hashes.
C11_HashOfMappingAndId ==
    [][(call.op = "hashParams" /\ call'.op = "hashParams") =>
          /\ (SameMapping(call.args[1], call'.args[1]) /\ call.args[2] = call'.args[2])
                 => ret' = ret
          /\ (call.args[1] = call'.args[1] /\ call.args[2] # call'.args[2])
                 => ret' # ret]_vars

\* a bag inserted in the order b, a hashes as the serialization sorted a, b, idExo
C11_Witness ==
    /\ call.op = "hashParams"
    /\ call.args[1].items = <<<<"b", "2">>, <<"a", "1">>>>
    /\ ret = md5(<<<<"a", "1">>, <<"b", "2">>, <<IdKey, call.args[2]>>>>)

(***************************************************************************)
(* Per-exercise variables (NextLib.py)                                     *)
(***************************************************************************)
\* TRUE iff CheckExerciseVariables returns without raising: "not
\* exercisesVariables" holds for None and for an empty dict
CheckExerciseVariables ==
    ~(exercisesVariables.none \/ DOMAIN exercisesVariables.bags = {})

\* variant: the lookup made before the gate is checked
getExerciseVariableLookupFirst(exerciseId, variableName) ==
    /\ Called("getExerciseVariable", <<exerciseId, variableName>>)
    /\ IF exerciseId \notin DOMAIN exercisesVariables.bags THEN Raise("KeyError")
       ELSE IF ~CheckExerciseVariables THEN Raise("ExerciseVariablesNotEnabledError")
       ELSE LET bag == exercisesVariables.bags[exerciseId] IN
            Return(IF variableName \in DOMAIN bag THEN bag[variableName] ELSE None)
    /\ Frame

getExerciseVariable(exerciseId, variableName) ==
    /\ Called("getExerciseVariable", <<exerciseId, variableName>>)
    /\ IF ~CheckExerciseVariables THEN Raise("ExerciseVariablesNotEnabledError")
       ELSE IF exerciseId \notin DOMAIN exercisesVariables.bags THEN Raise("KeyError")
       ELSE LET bag == exercisesVariables.bags[exerciseId] IN
            Return(IF variableName \in DOMAIN bag THEN bag[variableName] ELSE None)
    /\ Frame

getExerciseAllVariables(exerciseId) ==
    /\ Called("getExerciseAllVariables", <<exerciseId>>)
    /\ IF ~CheckExerciseVariables THEN Raise("ExerciseVariablesNotEnabledError")
       ELSE IF exerciseId \notin DOMAIN exercisesVariables.bags THEN Raise("KeyError")
       ELSE Return(exercisesVariables.bags[exerciseId])
    /\ Frame

VarNames == {"x", "y"}
VarBags  == {<<>>, [n \in {"x"} |-> "1"], [n \in VarNames |-> IF n = "x" THEN "2" ELSE "1"]}
VarIds   == {ExId(0, 0), ExId(0, 1)}

\* the feature off (None, or an empty dict), or on with a bag for some or
\* all of the exercises
InitVars ==
    /\ exerciseGroups = Layout(1, [g \in 0..(MaxGroups - 1) |-> MaxGroupSize], FALSE)
    /\ exercisesMeta = [x \in IdsOf(exerciseGroups) |-> Unplayed0]
    /\ navigation = [current |-> NoKey, terminated |-> FALSE]
    /\ generatedExercises = <<>>
    /\ exercisesVariables \in
           {NoVariables} \cup {Variables(bags) : bags \in UNION {[S -> VarBags] : S \in SUBSET VarIds}}
    /\ InitGlobals
    /\ LogIdle
    /\ content = <<>>

NextVars ==
    \/ \E x \in VarIds \cup {UnknownId}, n \in VarNames : getExerciseVariable(x, n)
    \/ \E x \in VarIds \cup {UnknownId} : getExerciseAllVariables(x)

SpecVars == InitVars /\ [][NextVars]_vars

VariableOps == {"getExerciseVariable", "getExerciseAllVariables"}

\* the gate of the feature: exercisesVariables is a non-empty mapping
FeatureOn == ~exercisesVariables.none /\ exercisesVariables.bags # <<>>

\* C15: getExerciseVariable and getExerciseAllVariables check the gate before
\* any lookup: with the feature off they signal
\* ExerciseVariablesNotEnabledError for every exercise id, known or not; with
\* the feature on they signal a lookup failure (KeyError) for an id without
\* a variable bag, and never ExerciseVariablesNotEnabledError.
C15_GateBeforeLookup ==
    call.op \in VariableOps =>
        IF FeatureOn
        THEN /\ outcome # "ExerciseVariablesNotEnabledError"
             /\ call.args[1] \notin DOMAIN exercisesVariables.bags <=> outcome = "KeyError"
        ELSE outcome = "ExerciseVariablesNotEnabledError"

\* the feature on, an id without a bag: lookup failure
C15_Witness ==
    /\ call.op = "getExerciseVariable"
    /\ FeatureOn
    /\ call.args[1] = UnknownId
    /\ outcome = "KeyError"

(***************************************************************************)
(* Group-indexed queries (NextLib.py)                                      *)
(***************************************************************************)
CallGetGroupExercisesCount(groupNb) ==
    /\ Called("getGroupExercisesCount", <<groupNb>>)
    /\ IF ~checkGroupNb(groupNb) THEN Raise("InvalidGroupError")
       ELSE Return(getGroupExercisesCount(groupNb))
    /\ Frame

getExerciseId(groupNb, exerciseNb) ==
    /\ Called("getExerciseId", <<groupNb, exerciseNb>>)
    /\ IF ~checkGroupNb(groupNb) THEN Raise("InvalidGroupError")
       ELSE IF ~checkExerciseNb(groupNb, exerciseNb) THEN Raise("InvalidExerciseError")
       ELSE Return(exerciseGroups[Str(groupNb)][exerciseNb + 1].id)
    /\ Frame

getRandomGroupExerciseNb(groupNb) ==
    /\ Called("getRandomGroupExerciseNb", <<groupNb>>)
    /\ IF ~checkGroupNb(groupNb) THEN Raise("InvalidGroupError")
       ELSE IF getGroupExercisesCount(groupNb) = 0 THEN Raise("ValueError")
       ELSE \E n \in 0..(getGroupExercisesCount(groupNb) - 1) : Return(n)
    /\ Frame

getRandomExerciseFromGroup(groupNb) ==
    /\ Called("getRandomExerciseFromGroup", <<groupNb>>)
    /\ IF ~checkGroupNb(groupNb) THEN Raise("InvalidGroupError")
       ELSE IF getGroupExercisesCount(groupNb) = 0 THEN Raise("ValueError")
       ELSE \E n \in 0..(getGroupExercisesCount(groupNb) - 1) :
                Return(exerciseGroups[Str(groupNb)][n + 1].id)
    /\ Frame

\* called with an explicit group number
isAllExercisesFromGroupPlayed(groupNb) ==
    /\ Called("isAllExercisesFromGroupPlayed", <<groupNb>>)
    /\ IF ~checkGroupNb(groupNb) THEN Raise("InvalidGroupError")
       ELSE Return(AllPlayed(exerciseGroups[Str(groupNb)]))
    /\ Frame

isOneExerciseFromGroupPlayed(groupNb) ==
    /\ Called("isOneExerciseFromGroupPlayed", <<groupNb>>)
    /\ IF ~checkGroupNb(groupNb) THEN Raise("InvalidGroupError")
       ELSE Return(AnyPlayed(exerciseGroups[Str(groupNb)]))
    /\ Frame

\* injected states for the queries: every layout and attempts pattern
InitQuery ==
    /\ exerciseGroups \in Layouts
    /\ exercisesMeta \in [IdsOf(exerciseGroups) -> {Unplayed0, PlayedOnce}]
    /\ navigation = [current |-> NoKey, terminated |-> FALSE]
    /\ generatedExercises = <<>>
    /\ exercisesVariables = NoVariables
    /\ InitGlobals
    /\ content = <<>>
    /\ LogIdle

\* one group-indexed call from each injected state
NextQuery ==
    \/ Fresh /\ \E g \in GroupArgs : CallGetGroupExercisesCount(g)
    \/ Fresh /\ \E g \in GroupArgs, n \in (-1)..MaxGroupSize : getExerciseId(g, n)
    \/ Fresh /\ \E g \in GroupArgs : getRandomGroupExerciseNb(g)
    \/ Fresh /\ \E g \in GroupArgs : getRandomExerciseFromGroup(g)
    \/ Fresh /\ \E g \in GroupArgs : isAllExercisesFromGroupPlayed(g)
    \/ Fresh /\ \E g \in GroupArgs : isOneExerciseFromGroupPlayed(g)
    \/ Fresh /\ \E g \in GroupArgs : playAnyFromGroup(g)
    \/ Fresh /\ \E g \in GroupArgs, r \in BOOLEAN : playAllFromGroup(g, r)

SpecQuery == InitQuery /\ [][NextQuery]_vars

GroupOps ==
    {"getGroupExercisesCount", "getExerciseId", "getRandomGroupExerciseNb",
     "getRandomExerciseFromGroup", "playAnyFromGroup", "playAllFromGroup",
     "isAllExercisesFromGroupPlayed", "isOneExerciseFromGroupPlayed"}

InRange(groupNb) == 0 <= groupNb /\ groupNb < getGroupsCount

\* C6 (as claimed): every group-indexed operation signals InvalidGroupError
\* whenever the group index is outside [0, getGroupsCount()), whether or not
\* the reserved group "-1" is present.
C6_OutOfRangeIsInvalid ==
    (call.op \in GroupOps /\ ~InRange(call.args[1])) => outcome = "InvalidGroupError"

\* C6 (amended): every group-indexed operation signals InvalidGroupError
\* exactly when str(index) is not a key of exerciseGroups: for every index
\* outside [0, getGroupsCount()), index == getGroupsCount() included, except
\* index -1 when the reserved group "-1" is present, which passes the check.
C6_InvalidIffNoSuchKey ==
    call.op \in GroupOps =>
        LET g        == call.args[1]
            reserved == g = -1 /\ GenGroup \in DOMAIN exerciseGroups
        IN  /\ (~InRange(g) /\ ~reserved) => outcome = "InvalidGroupError"
            /\ (InRange(g) \/ reserved) => outcome # "InvalidGroupError"

\* index -1 accepted because the generated group is present
C6_Witness ==
    /\ call.op = "getGroupExercisesCount"
    /\ call.args[1] = -1
    /\ GenGroup \in DOMAIN exerciseGroups
    /\ outcome = "return"
    /\ ret = 1

(***************************************************************************)
(* isAllExercisesFromGroupPlayed called without an argument (NextLib.py)   *)
(***************************************************************************)
\* The default "groupNb: int = getPreviousGroupNumber()" was evaluated once,
\* when the def statement ran: the call uses groupNbDefault, and
\* checkGroupNb(None) finds no key "None".
isAllExercisesFromGroupPlayedDefault ==
    /\ Called("isAllExercisesFromGroupPlayed", <<>>)
    /\ IF groupNbDefault = <<>> THEN Raise("InvalidGroupError")
       ELSE IF ~checkGroupNb(groupNbDefault[1]) THEN Raise("InvalidGroupError")
       ELSE Return(AllPlayed(exerciseGroups[Str(groupNbDefault[1])]))
    /\ Frame

\* The hosting runtime honours a play signal: the pending exercise becomes
\* navigation["current"].
RuntimeHonoursPlay ==
    /\ outcome = "StopExec"
    /\ nextExerciseId \in DOMAIN exercisesMeta
    /\ navigation' = [navigation EXCEPT !.current = CurEx(nextExerciseId)]
    /\ call' = [op |-> "runtime", args |-> <<>>]
    /\ outcome' = "return"
    /\ ret' = NoRet
    /\ UNCHANGED <<envVars, pendVars, activityGrade, logVars, content>>

\* the module loaded with no exercise launched yet, or with the first
\* exercise of a group current; group 0 played or not
InitDefault ==
    /\ exerciseGroups \in FullLayouts
    /\ \E played \in {{}, GroupIds(0), IdsOf(exerciseGroups)} :
           exercisesMeta = [x \in IdsOf(exerciseGroups) |->
                               IF x \in played THEN PlayedOnce ELSE Unplayed0]
    /\ navigation \in {[current |-> c, terminated |-> FALSE] :
                         c \in {NoKey, CurEx(ExId(0, 0)), CurEx(ExId(1, 0))}}
    /\ generatedExercises = <<>>
    /\ exercisesVariables = NoVariables
    /\ InitGlobals
    /\ LogIdle
    /\ content = <<>>

NextDefault ==
    \/ \E x \in IdsOf(exerciseGroups) : CallPlayExercise(x, PNone)
    \/ RuntimeHonoursPlay
    \/ isAllExercisesFromGroupPlayedDefault
    \/ \E g \in GroupArgs : isAllExercisesFromGroupPlayed(g)

SpecDefault == InitDefault /\ [][NextDefault]_vars

\* the numbers of the groups that hold navigation["current"]
GroupsOfCurrent ==
    {g \in {Num(k) : k \in DOMAIN exerciseGroups} :
        /\ navigation.current.kind = "ex"
        /\ \E i \in PositionsOf(g) : IdAt(g, i) = navigation.current.id}

\* C18: isAllExercisesFromGroupPlayed() called without a group argument, in
\* any navigation state reached after the module was loaded, checks the
\* group that holds navigation.current at the time of the call: it returns
\* true iff every exercise of that group has attempts > 0.
C18_DefaultIsGroupOfCurrent ==
    [][(call'.op = "isAllExercisesFromGroupPlayed" /\ call'.args = <<>>) =>
          \A g \in GroupsOfCurrent :
              /\ outcome' = "return"
              /\ ret' = (UnplayedIn(g) = {})]_vars

(***************************************************************************)
(* Grading (NextLib.py)                                                    *)
(***************************************************************************)
\* getExerciseGrades
getExerciseGrades(exerciseId) == exercisesMeta[exerciseId].grades

\* variant: the first grade instead of the last
getExerciseFirstGrade(exerciseId) ==
    LET grades == getExerciseGrades(exerciseId) IN
        IF grades # <<>> THEN <<grades[1]>> ELSE <<>>

\* getExerciseLastGrade: <<g>> for the grade g, <<>> for None
getExerciseLastGrade(exerciseId) ==
    LET grades == getExerciseGrades(exerciseId) IN
        IF grades # <<>> THEN <<grades[Len(grades)]>> ELSE <<>>

\* [getExerciseLastGrade(ex_id) for ex_id in exercisesMeta if isPlayed(ex_id)]
\* without the None entries
RECURSIVE PlayedGrades(_)
PlayedGrades(ids) ==
    IF ids = {} THEN <<>>
    ELSE LET ex_id == CHOOSE x \in ids : TRUE IN
         (IF isPlayed(ex_id) THEN getExerciseLastGrade(ex_id) ELSE <<>>)
             \o PlayedGrades(ids \ {ex_id})

RECURSIVE sum(_)
sum(grades) == IF grades = <<>> THEN 0 ELSE Head(grades) + sum(Tail(grades))

RECURSIVE max(_)
max(grades) ==
    IF Len(grades) = 1 THEN grades[1]
    ELSE IF Head(grades) >= max(Tail(grades)) THEN Head(grades) ELSE max(Tail(grades))

average_grade_strategy ==
    LET played_grades == PlayedGrades(DOMAIN exercisesMeta) IN
        IF played_grades # <<>> THEN sum(played_grades) \div Len(played_grades) ELSE 0

best_grade_strategy ==
    LET played_grades == PlayedGrades(DOMAIN exercisesMeta) IN
        IF played_grades # <<>> THEN max(played_grades) ELSE 0

\* a strategy: one of the two built-in ones, or a caller's returning value
StrategyResult(strategy) ==
    CASE strategy.kind = "average" -> average_grade_strategy
      [] strategy.kind = "best"    -> best_grade_strategy
      [] OTHER                     -> strategy.value

GradeFrame == UNCHANGED <<envVars, navigation, pendVars, logVars, content>>

\* variant: the grade stored before it is validated
setActivityGradeStoreFirst(grade_aggregation_strategy) ==
    /\ Called("setActivityGrade", <<grade_aggregation_strategy>>)
    /\ LET total_grade == StrategyResult(grade_aggregation_strategy) IN
           /\ activityGrade' = <<total_grade>>
           /\ outcome' = IF total_grade < 0 \/ total_grade > 100
                         THEN "ValueError" ELSE "return"
           /\ ret' = NoRet
    /\ GradeFrame

setActivityGrade(grade_aggregation_strategy) ==
    /\ Called("setActivityGrade", <<grade_aggregation_strategy>>)
    /\ LET total_grade == StrategyResult(grade_aggregation_strategy) IN
           IF total_grade < 0 \/ total_grade > 100
           THEN /\ outcome' = "ValueError"
                /\ ret' = NoRet
                /\ UNCHANGED activityGrade
           ELSE /\ activityGrade' = <<total_grade>>
                /\ outcome' = "return"
                /\ ret' = NoRet
    /\ GradeFrame

CallAverageGradeStrategy ==
    /\ Called("average_grade_strategy", <<>>)
    /\ outcome' = "return"
    /\ ret' = average_grade_strategy
    /\ UNCHANGED activityGrade
    /\ GradeFrame

CallBestGradeStrategy ==
    /\ Called("best_grade_strategy", <<>>)
    /\ outcome' = "return"
    /\ ret' = best_grade_strategy
    /\ UNCHANGED activityGrade
    /\ GradeFrame

GradeVals == {70, 80, 90}
Strategies ==
    {[kind |-> "average", value |-> 0], [kind |-> "best", value |-> 0]}
        \cup {[kind |-> "caller", value |-> v] : v \in {-1, 0, 100, 101}}

GradeLists == UNION {[1..n -> GradeVals] : n \in 0..MaxGrades}

\* three exercises; every exercise has one grade per attempt
InitGrade ==
    /\ exerciseGroups = Layout(2, [g \in 0..1 |-> 2 - g], FALSE)
    /\ exercisesMeta \in [IdsOf(exerciseGroups) ->
                             {[attempts |-> Len(gs), grades |-> gs] : gs \in GradeLists}]
    /\ navigation = [current |-> NoKey, terminated |-> FALSE]
    /\ generatedExercises = <<>>
    /\ exercisesVariables = NoVariables
    /\ InitGlobals
    /\ content = <<>>
    /\ LogIdle

NextGrade ==
    \/ \E st \in Strategies : setActivityGrade(st)
    \/ CallAverageGradeStrategy
    \/ CallBestGradeStrategy

SpecGrade == InitGrade /\ [][NextGrade]_vars

PlayedIds == {x \in DOMAIN exercisesMeta : exercisesMeta[x].attempts > 0}

RECURSIVE SumLast(_)
SumLast(ids) ==
    IF ids = {} THEN 0
    ELSE LET x == CHOOSE y \in ids : TRUE IN
         exercisesMeta[x].grades[Len(exercisesMeta[x].grades)] + SumLast(ids \ {x})

\* integer floor of a / b for b > 0, from its defining inequalities
Floor(a, b) == CHOOSE q \in 0..a : q * b <= a /\ a < (q + 1) * b

\* C8: average_grade_strategy returns the integer floor of the sum of the
\* last grades of the played exercises divided by their number, and 0 when
\* no exercise is played.
C8_AverageOfLastGrades ==
    call.op = "average_grade_strategy" =>
        ret = IF PlayedIds = {} THEN 0
              ELSE Floor(SumLast(PlayedIds), Cardinality(PlayedIds))

\* last grades 80, 90 and 70 give 80
C8_Witness ==
    /\ call.op = "average_grade_strategy"
    /\ {getExerciseLastGrade(x) : x \in DOMAIN exercisesMeta} = {<<80>>, <<90>>, <<70>>}
    /\ ret = 80

(***************************************************************************)
(* The log buffer (PlatonLogger.py)                                        *)
(***************************************************************************)
NoThread == 0
Callers  == 1..NumCallers       \* the threads that call platon_log
Reader   == NumCallers + 1      \* the thread that calls get_logs

\* " ".join(map(str, args)): the tokens with one space between neighbours
RECURSIVE Join(_)
Join(args) ==
    IF Len(args) <= 1 THEN args
    ELSE <<Head(args), " ">> \o Join(Tail(args))

\* the k-th call of every caller: platon_log("a") or platon_log("a", "b")
ArgsOfCall(k) == IF k % 2 = 1 THEN <<"a">> ELSE <<"a", "b">>

\* variant: the message inserted at the front of the list
ListPrepend(list, item) == <<item>> \o list

\* _logs.append(message)
ListAppend(list, item) == Append(list, item)

\* variant: get_logs hands out the _logs object itself
ListSelf(list) == [object |-> "_logs", items |-> list]

\* _logs.copy(): a new list object holding the same items
ListCopy(list) == [object |-> "new", items |-> list]

LogFrame == UNCHANGED <<navVars, content>>

\* message = " ".join(map(str, args))
LogJoin(t) ==
    /\ pc[t] = "idle"
    /\ sent[t] < Len(script[t])
    /\ message' = [message EXCEPT ![t] = Join(script[t][sent[t] + 1])]
    /\ pc' = [pc EXCEPT ![t] = "acquire"]
    /\ UNCHANGED <<_logs, _lock, script, sent, origin, got, gotOrigin, gotAfterAll, bufVars>>
    /\ LogFrame

\* with _lock: (enter)
LogAcquire(t) ==
    /\ pc[t] = "acquire"
    /\ _lock = NoThread
    /\ _lock' = t
    /\ pc' = [pc EXCEPT ![t] = "append"]
    /\ UNCHANGED <<_logs, script, sent, origin, got, gotOrigin, gotAfterAll, message, bufVars>>
    /\ LogFrame

LogAppend(t) ==
    /\ pc[t] = "append"
    /\ _logs' = ListAppend(_logs, message[t])
    /\ origin' = ListAppend(origin, <<t, sent[t] + 1>>)
    /\ pc' = [pc EXCEPT ![t] = "release"]
    /\ appended' = Append(appended, message[t])
    /\ UNCHANGED <<_lock, script, sent, got, gotOrigin, gotAfterAll, message>>
    /\ UNCHANGED <<gotObject, count, clearedAt>>
    /\ LogFrame

\* with _lock: (exit); platon_log returns
LogRelease(t) ==
    /\ pc[t] = "release"
    /\ _lock' = NoThread
    /\ sent' = [sent EXCEPT ![t] = sent[t] + 1]
    /\ pc' = [pc EXCEPT ![t] = "idle"]
    /\ UNCHANGED <<_logs, script, origin, got, gotOrigin, gotAfterAll, message, bufVars>>
    /\ LogFrame

AllAppended == \A t \in Callers : sent[t] = Len(script[t])

\* get_logs() is called
GetCall ==
    /\ pc[Reader] \in {"idle", "returned"}
    /\ gotAfterAll' = IF AllAppended THEN "afterAll" ELSE "early"
    /\ pc' = [pc EXCEPT ![Reader] = "acquire"]
    /\ UNCHANGED <<_logs, _lock, script, sent, origin, got, gotOrigin, message, bufVars>>
    /\ LogFrame

GetAcquire ==
    /\ pc[Reader] = "acquire"
    /\ _lock = NoThread
    /\ _lock' = Reader
    /\ pc' = [pc EXCEPT ![Reader] = "copy"]
    /\ UNCHANGED <<_logs, script, sent, origin, got, gotOrigin, gotAfterAll, message, bufVars>>
    /\ LogFrame

\* return _logs.copy()
GetCopy ==
    /\ pc[Reader] = "copy"
    /\ LET copy == ListCopy(_logs) IN
           /\ got' = copy.items
           /\ gotObject' = copy.object
    /\ gotOrigin' = origin
    /\ pc' = [pc EXCEPT ![Reader] = "release"]
    /\ UNCHANGED <<_logs, _lock, script, sent, origin, gotAfterAll, message>>
    /\ UNCHANGED <<count, appended, clearedAt>>
    /\ LogFrame

GetRelease ==
    /\ pc[Reader] = "release"
    /\ _lock' = NoThread
    /\ pc' = [pc EXCEPT ![Reader] = "returned"]
    /\ UNCHANGED <<_logs, script, sent, origin, got, gotOrigin, gotAfterAll, message, bufVars>>
    /\ LogFrame

InitLog ==
    /\ _logs = <<>>
    /\ _lock = NoThread
    /\ pc = [t \in {Reader} \cup Callers |-> "idle"]
    /\ \E n \in [Callers -> 1..MaxMsgs] :
           script = [t \in Callers |-> [k \in 1..n[t] |-> ArgsOfCall(k)]]
    /\ sent = [t \in Callers |-> 0]
    /\ origin = <<>>
    /\ got = <<>>
    /\ gotOrigin = <<>>
    /\ gotAfterAll = "none"
    /\ message = [t \in Callers |-> <<>>]
    /\ gotObject = "none"
    /\ count = <<>>
    /\ appended = <<>>
    /\ clearedAt = 0
    /\ exerciseGroups = <<>>
    /\ exercisesMeta = <<>>
    /\ navigation = [current |-> NoKey, terminated |-> FALSE]
    /\ generatedExercises = <<>>
    /\ exercisesVariables = NoVariables
    /\ InitGlobals
    /\ content = <<>>

NextLog ==
    \/ \E t \in Callers : LogJoin(t)
    \/ \E t \in Callers : LogAcquire(t)
    \/ \E t \in Callers : LogAppend(t)
    \/ \E t \in Callers : LogRelease(t)
    \/ GetCall
    \/ GetAcquire
    \/ GetCopy
    \/ GetRelease

SpecLog == InitLog /\ [][NextLog]_vars

\* the bag (multiset) of the entries of a sequence
BagOf(seq) ==
    [x \in {seq[i] : i \in 1..Len(seq)} |-> Cardinality({i \in 1..Len(seq) : seq[i] = x})]

\* every message the callers were to append, caller after caller
RECURSIVE AllMessagesFrom(_)
AllMessagesFrom(t) ==
    IF t > NumCallers THEN <<>>
    ELSE [k \in 1..Len(script[t]) |-> Join(script[t][k])] \o AllMessagesFrom(t + 1)

\* the entries of the returned list that caller t appended, in list order
OfCaller(t) ==
    LET at == SelectSeq([i \in 1..Len(got) |-> i], LAMBDA i : gotOrigin[i][1] = t)
    IN  [j \in 1..Len(at) |-> got[at[j]]]

\* C1: a get_logs() issued after all appends of all callers have completed
\* returns exactly the multiset of the appended messages, each caller's
\* messages in that caller's call order.
C1_AllMessagesInCallerOrder ==
    (pc[Reader] = "returned" /\ gotAfterAll = "afterAll") =>
        /\ BagOf(got) = BagOf(AllMessagesFrom(1))
        /\ \A t \in Callers :
               OfCaller(t) = [k \in 1..Len(script[t]) |-> Join(script[t][k])]

\* two callers, one of them with two messages, all returned
C1_Witness ==
    /\ pc[Reader] = "returned"
    /\ gotAfterAll = "afterAll"
    /\ \E t \in Callers : Len(script[t]) >= 2
    /\ Len(got) > NumCallers
    /\ \E i \in 1..(Len(got) - 1) : gotOrigin[i][1] > gotOrigin[i + 1][1]

(***************************************************************************)
(* The log buffer with clear_logs and log_count (PlatonLogger.py)          *)
(***************************************************************************)
Clearer == NumCallers + 2       \* the thread that calls clear_logs
Counter == NumCallers + 3       \* the thread that calls log_count

\* _logs.clear()
ListClear(list) == <<>>

BufFrame ==
    /\ UNCHANGED <<script, sent, got, gotOrigin, gotAfterAll, message, gotObject>>
    /\ LogFrame

\* clear_logs() is called
ClearCall ==
    /\ pc[Clearer] = "idle"
    /\ pc' = [pc EXCEPT ![Clearer] = "acquire"]
    /\ UNCHANGED <<_logs, _lock, origin, count, appended, clearedAt>>
    /\ BufFrame

ClearAcquire ==
    /\ pc[Clearer] = "acquire"
    /\ _lock = NoThread
    /\ _lock' = Clearer
    /\ pc' = [pc EXCEPT ![Clearer] = "clear"]
    /\ UNCHANGED <<_logs, origin, count, appended, clearedAt>>
    /\ BufFrame

ClearLogs ==
    /\ pc[Clearer] = "clear"
    /\ _logs' = ListClear(_logs)
    /\ origin' = <<>>
    /\ clearedAt' = Len(appended)
    /\ pc' = [pc EXCEPT ![Clearer] = "release"]
    /\ UNCHANGED <<_lock, count, appended>>
    /\ BufFrame

\* with _lock: (exit); clear_logs returns
ClearRelease ==
    /\ pc[Clearer] = "release"
    /\ _lock' = NoThread
    /\ pc' = [pc EXCEPT ![Clearer] = "idle"]
    /\ UNCHANGED <<_logs, origin, count, appended, clearedAt>>
    /\ BufFrame

\* log_count() is called
CountCall ==
    /\ pc[Counter] \in {"idle", "returned"}
    /\ pc' = [pc EXCEPT ![Counter] = "acquire"]
    /\ UNCHANGED <<_logs, _lock, origin, count, appended, clearedAt>>
    /\ BufFrame

CountAcquire ==
    /\ pc[Counter] = "acquire"
    /\ _lock = NoThread
    /\ _lock' = Counter
    /\ pc' = [pc EXCEPT ![Counter] = "len"]
    /\ UNCHANGED <<_logs, origin, count, appended, clearedAt>>
    /\ BufFrame

\* return len(_logs)
CountLen ==
    /\ pc[Counter] = "len"
    /\ count' = <<Len(_logs)>>
    /\ pc' = [pc EXCEPT ![Counter] = "release"]
    /\ UNCHANGED <<_logs, _lock, origin, appended, clearedAt>>
    /\ BufFrame

CountRelease ==
    /\ pc[Counter] = "release"
    /\ _lock' = NoThread
    /\ pc' = [pc EXCEPT ![Counter] = "returned"]
    /\ UNCHANGED <<_logs, origin, count, appended, clearedAt>>
    /\ BufFrame

\* the first caller logs 1..MaxMsgs messages, every other caller one
InitBuffer ==
    /\ _logs = <<>>
    /\ _lock = NoThread
    /\ pc = [t \in Callers \cup {Reader, Clearer, Counter} |-> "idle"]
    /\ \E n \in {f \in [Callers -> 1..MaxMsgs] : \A t \in Callers \ {1} : f[t] = 1} :
           script = [t \in Callers |-> [k \in 1..n[t] |-> ArgsOfCall(k)]]
    /\ sent = [t \in Callers |-> 0]
    /\ origin = <<>>
    /\ got = <<>>
    /\ gotOrigin = <<>>
    /\ gotAfterAll = "none"
    /\ message = [t \in Callers |-> <<>>]
    /\ gotObject = "none"
    /\ count = <<>>
    /\ appended = <<>>
    /\ clearedAt = 0
    /\ NoEnv
    /\ InitGlobals
    /\ content = <<>>

NextBuffer ==
    \/ \E t \in Callers : LogJoin(t)
    \/ \E t \in Callers : LogAcquire(t)
    \/ \E t \in Callers : LogAppend(t)
    \/ \E t \in Callers : LogRelease(t)
    \/ GetCall
    \/ GetAcquire
    \/ GetCopy
    \/ GetRelease
    \/ ClearCall
    \/ ClearAcquire
    \/ ClearLogs
    \/ ClearRelease
    \/ CountCall
    \/ CountAcquire
    \/ CountLen
    \/ CountRelease

SpecBuffer == InitBuffer /\ [][NextBuffer]_vars

\* the messages appended since _logs was last cleared, in append order
SinceClear == SubSeq(appended, clearedAt + 1, Len(appended))

\* what the caller of get_logs reads in the list it was handed
Returned == IF gotObject = "_logs" THEN _logs ELSE got

\* C20: under every interleaving of platon_log, get_logs, clear_logs and
\* log_count, the list get_logs returns is the sequence of the messages
\* appended since the last clear_logs at the instant it holds the lock, in
\* append order; later appends and clears do not alter the returned list;
\* and log_count returns the length of that sequence at the instant it holds
\* the lock.
C20_SnapshotsUnderLock ==
    /\ [][(pc[Reader] = "copy" /\ pc'[Reader] = "release") => got' = SinceClear]_vars
    /\ [][(pc[Reader] \in {"release", "returned"} /\ pc'[Reader] = pc[Reader]) =>
             Returned' = Returned]_vars
    /\ [][(pc[Counter] = "len" /\ pc'[Counter] = "release") =>
             count' = <<Len(SinceClear)>>]_vars

\* a list returned after a clear, then a later append, and a count taken
C20_Witness ==
    /\ pc[Reader] = "returned"
    /\ clearedAt > 0
    /\ Len(got) > 0
    /\ Len(_logs) > Len(got)
    /\ count = <<Len(_logs)>>

(***************************************************************************)
(* Feedback items (FoldableFeedbackLib.py)                                 *)
(*                                                                         *)
(* A str is the sequence of its characters; an Optional argument is        *)
(* Absent (Python None) or Given(value).                                   *)
(***************************************************************************)
KeepLen          == 250     \* value[:250], value[-250:]
DefaultMaxLength == 1000    \* max_length: int = 1000
MaxItems         == 2       \* items appended to content

Note ==
    <<" ", ".", ".", ".", " ", "(", "r", "e", "s", "u", "l", "t", " ", "t", "o", "o",
      " ", "l", "o", "n", "g", ")", " ", ".", ".", ".", " ">>

Absent   == [none |-> TRUE,  value |-> <<>>]
Given(v) == [none |-> FALSE, value |-> v]

\* value[:n]
Prefix(value, n) == SubSeq(value, 1, IF n < Len(value) THEN n ELSE Len(value))
\* value[-n:]
Suffix(value, n) == SubSeq(value, IF n < Len(value) THEN Len(value) - n + 1 ELSE 1, Len(value))

_truncate_field(value, max_length) ==
    IF Len(value) > max_length
    THEN Prefix(value, KeepLen) \o Note \o Suffix(value, KeepLen)
    ELSE value

\* feedback[key] = arg unless arg is None
SetIfGiven(feedback, key, arg) ==
    IF arg.none THEN feedback ELSE [feedback EXCEPT ![key] = arg.value]

_update_feedback(feedback, name, description, expected, obtained, arguments, display, feedback_type) ==
    SetIfGiven(SetIfGiven(SetIfGiven(SetIfGiven(SetIfGiven(SetIfGiven(SetIfGiven(
        feedback, "name", name), "description", description), "expected", expected),
        "obtained", obtained), "arguments", arguments), "display", display),
        "type", feedback_type)

FeedbackFrame == UNCHANGED <<envVars, navigation, pendVars, activityGrade, logVars>>

\* add_feedback(name, expected=..., obtained=..., max_length=...), the other
\* arguments at their defaults
add_feedback(name, expected, obtained, max_length) ==
    /\ Len(content) < MaxItems
    /\ call' = [op |-> "add_feedback",
                args |-> [expected |-> Given(expected), obtained |-> Given(obtained),
                          max_length |-> max_length]]
    /\ content' = Append(content,
                         [name        |-> name,
                          description |-> "",
                          expected    |-> _truncate_field(expected, max_length),
                          obtained    |-> _truncate_field(obtained, max_length),
                          arguments   |-> "",
                          display     |-> FALSE,
                          type        |-> "info"])
    /\ outcome' = "return"
    /\ ret' = NoRet
    /\ FeedbackFrame

\* position of the last item of content without a "feedbacks" key, 0 if none
LastFeedback(items) ==
    LET at == {i \in 1..Len(items) : "feedbacks" \notin DOMAIN items[i]}
    IN  IF at = {} THEN 0 ELSE CHOOSE i \in at : \A j \in at : j <= i

\* add_to_last_feedback(expected=..., obtained=..., max_length=...)
add_to_last_feedback(expected, obtained, max_length) ==
    /\ call' = [op |-> "add_to_last_feedback",
                args |-> [expected |-> expected, obtained |-> obtained,
                          max_length |-> max_length]]
    /\ LET last == LastFeedback(content)
           e    == IF expected.none THEN expected
                   ELSE Given(_truncate_field(expected.value, max_length))
           o    == IF obtained.none THEN obtained
                   ELSE Given(_truncate_field(obtained.value, max_length))
       IN  content' =
               IF last = 0 THEN content
               ELSE [content EXCEPT ![last] =
                        _update_feedback(content[last], Absent, Absent, e, o, Absent,
                                         Absent, Absent)]
    /\ outcome' = "return"
    /\ ret' = NoRet
    /\ FeedbackFrame

\* add_category(name), the other arguments at their defaults
add_category(name) ==
    /\ Len(content) < MaxItems
    /\ call' = [op |-> "add_category", args |-> [name |-> name]]
    /\ content' = Append(content,
                         [name        |-> name,
                          description |-> "",
                          display     |-> FALSE,
                          type        |-> "info",
                          feedbacks   |-> <<>>])
    /\ outcome' = "return"
    /\ ret' = NoRet
    /\ FeedbackFrame

\* a text of n characters, no two neighbours alike
Alphabet == <<"a", "b", "c", "d", "e", "f", "g">>
Text(n)  == [i \in 1..n |-> Alphabet[(i % Len(Alphabet)) + 1]]

\* lengths around the limits: empty, short, longer than a small limit,
\* around 2 * KeepLen + Len(Note), around the default limit
Expecteds  == {Text(n) : n \in {0, 1, 300, 2 * KeepLen + Len(Note),
                                2 * KeepLen + Len(Note) + 1, DefaultMaxLength + 1}}
Obtaineds  == {Text(n) : n \in {2, DefaultMaxLength + 2}}
MaxLengths == {0, 100, DefaultMaxLength}

InitFeedback ==
    /\ content = <<>>
    /\ NoEnv
    /\ InitGlobals
    /\ LogIdle

NextFeedback ==
    \/ \E e \in Expecteds, o \in Obtaineds, m \in MaxLengths : add_feedback("t", e, o, m)
    \/ \E e \in {Absent} \cup {Given(v) : v \in Expecteds},
          o \in {Absent} \cup {Given(v) : v \in Obtaineds}, m \in MaxLengths :
              add_to_last_feedback(e, o, m)
    \/ add_category("c")

SpecFeedback == InitFeedback /\ [][NextFeedback]_vars

\* the field is stored as supplied when it fits, else as first KeepLen
\* characters, note, last KeepLen characters, strictly shorter than supplied
StoredAsClaimed(supplied, stored, max_length) ==
    /\ Len(supplied) <= max_length => stored = supplied
    /\ Len(supplied) > max_length =>
           /\ stored = Prefix(supplied, KeepLen) \o Note \o Suffix(supplied, KeepLen)
           /\ Len(stored) < Len(supplied)
    /\ Len(stored) <= Len(supplied)

\* C19: for every value and every max_length, add_feedback and
\* add_to_last_feedback store an expected/obtained field unchanged when its
\* length is at most max_length, and otherwise store the truncated value
\* (first 250 characters, note, last 250 characters), strictly shorter than
\* the supplied one; the stored field is never longer than the supplied one.
C19_TruncationShortens ==
    (call.op \in {"add_feedback", "add_to_last_feedback"} /\ LastFeedback(content) # 0) =>
        LET stored == content[LastFeedback(content)] IN
            /\ ~call.args.expected.none =>
                   StoredAsClaimed(call.args.expected.value, stored.expected,
                                   call.args.max_length)
            /\ ~call.args.obtained.none =>
                   StoredAsClaimed(call.args.obtained.value, stored.obtained,
                                   call.args.max_length)

====
